---- MODULE Spec2Model ----
(***************************************************************************)
(* Model of the python-blueprint-engine: the deterministic fact pipeline   *)
(* of get_facts.py (build_fact_json and its helpers) and the simplified    *)
(* blueprint engine of index.py (generate_blueprint and its calculators),  *)
(* and the narrative stage of compose_story.py.                            *)
(*                                                                         *)
(* Strings that the code inspects digit by digit (str(num), strftime) are  *)
(* sequences of decimal digits.  Longitudes are fixed-point numbers.       *)
(***************************************************************************)
EXTENDS Integers, Sequences, FiniteSets, TLC

VARIABLES
    year, month, day,        \* the birth date handed to the date calculators
    life_path_calc,          \* index.py calculate_life_path_number: its locals and result
    numerology_life_path,    \* get_facts.py life_path(date); 0 = not computed yet
    chinese,                 \* get_facts.py chinese_zodiac(date)
    archetype_chinese,       \* index.py calculate_chinese_zodiac, computed branch
    body,                    \* which longitude of build_fact_json: "sun", "moon", "asc"
    long,                    \* its raw ecliptic longitude, in fixed-point units
    sign_index,              \* int(long / 30); -1 = not mapped yet
    sign,                    \* signs[int(long / 30)]
    deg_unrounded,           \* long % 30, in fixed-point units
    deg,                     \* round(long % 30, 2), in hundredths of a degree
    entry,                   \* the entry point called: build_fact_json or generate_blueprint
    date_str, time_str,      \* its date and time arguments, as their '-' and ':' fields
    full_name,               \* its name argument, as the code points of its characters
    now,                     \* the system clock, in ticks since the first instant explored
    remembered,              \* one earlier call, kept to compare a later call with
    story,                   \* compose_story.py: what generate_blueprint_narrative returned
    pc,                      \* the statement the call has reached
    trace,                   \* outbound lookups issued and calculators run, in order
    error,                   \* the exception that left the entry point, "" if none
    local_dt, utc_dt,        \* build_fact_json: parsed local time, UTC instant
    geo_matches,             \* build_fact_json: matches Nominatim returned; -1 = not asked
    location,                \* build_fact_json: geocode()'s result
    offset,                  \* build_fact_json: utc_offset()'s result, in minutes
    bg,                      \* build_fact_json: the hdkit bodygraph
    western,                 \* build_fact_json: the "western" sub-record
    astro_data, numerology, human_design, chinese_data,
                             \* generate_blueprint: the calculators' sub-records
    result,                  \* the record the entry point returned
    defined_centers, definition,
                             \* get_hd_definition: its argument and the label returned
    reduce_in, reduced, reduced_again
                             \* reduce_single_digit: n, its reduction, and that reduced again

dateVars == <<year, month, day>>
lifePathVars == <<life_path_calc, numerology_life_path>>
zodiacVars == <<chinese, archetype_chinese>>
signVars == <<body, long, sign_index, sign, deg_unrounded, deg>>
inputVars == <<entry, date_str, time_str, full_name>>
outsideVars == <<now, remembered, story>>
factVars == <<local_dt, utc_dt, geo_matches, location, offset, bg, western>>
blueprintVars == <<astro_data, numerology, human_design, chinese_data>>
pipelineVars == <<inputVars, outsideVars, pc, trace, error, factVars, blueprintVars, result>>
definitionVars == <<defined_centers, definition>>
reduceVars == <<reduce_in, reduced, reduced_again>>
calcVars == <<dateVars, lifePathVars, zodiacVars, signVars, definitionVars, reduceVars>>
vars == <<calcVars, pipelineVars>>

(***************************************************************************)
(* Bounds                                                                  *)
(***************************************************************************)
\* last birth year of the life-path specification; eighty years are explored
MaxYear == 2029
MinYear == MaxYear - 79
\* last year of the Chinese-zodiac specification; 131 years are explored
MaxZodiacYear == 2030
MinZodiacYear == MaxZodiacYear - 130
\* largest number handed to reduce_single_digit on its own
MaxReduceInput == 3000
\* longest name, in characters
MaxNameLen == 3
\* last tick of the system clock
MaxClock == 2
\* fixed-point resolution of a longitude: units per hundredth of a degree
UnitsPerHundredth == 10
\* longest date string, in '-' separated fields, and longest time string, in
\* ':' separated fields
MaxDateFields == 3
MaxTimeFields == 2

(***************************************************************************)
(* Calendar (datetime validates the day against the month and leap year)   *)
(***************************************************************************)
IsLeap(y) == (y % 4 = 0 /\ y % 100 # 0) \/ y % 400 = 0

DaysInMonth(y, m) ==
    IF m = 2 THEN (IF IsLeap(y) THEN 29 ELSE 28)
    ELSE IF m \in {4, 6, 9, 11} THEN 30 ELSE 31

(***************************************************************************)
(* Decimal strings: str(n), int(s), sum(int(d) for d in s)                 *)
(***************************************************************************)
RECURSIVE str(_)
str(n) == IF n < 10 THEN <<n>> ELSE Append(str(n \div 10), n % 10)

RECURSIVE int(_)
int(s) == IF Len(s) = 0 THEN 0
          ELSE 10 * int(SubSeq(s, 1, Len(s) - 1)) + s[Len(s)]

RECURSIVE sum_digits(_)
sum_digits(s) == IF Len(s) = 0 THEN 0 ELSE s[1] + sum_digits(Tail(s))

\* "%02d" as strftime writes %m and %d
pad2(n) == IF n < 10 THEN <<0, n>> ELSE str(n)

\* date.strftime("%Y%m%d")
strftime_Ymd(y, m, d) == str(y) \o pad2(m) \o pad2(d)

(***************************************************************************)
(* index.py: reduce_single_digit, calculate_life_path_number               *)
(***************************************************************************)
\* the string literals "11", "22", "33" of the while condition
MasterStrings == {<<1, 1>>, <<2, 2>>, <<3, 3>>}

RECURSIVE reduce_loop(_)
reduce_loop(num_str) ==
    IF Len(num_str) > 1 /\ num_str \notin MasterStrings
    THEN reduce_loop(str(sum_digits(num_str)))
    ELSE num_str

\* a reduction that forgets the master numbers: the plain digital root
RECURSIVE reduce_loop_no_master(_)
reduce_loop_no_master(num_str) ==
    IF Len(num_str) > 1
    THEN reduce_loop_no_master(str(sum_digits(num_str)))
    ELSE num_str

reduce_single_digit_no_master(num) == int(reduce_loop_no_master(str(num)))

\* a reduction that sums the digits once instead of looping
reduce_single_digit_one_pass(num) ==
    IF Len(str(num)) > 1 /\ str(num) \notin MasterStrings
    THEN sum_digits(str(num))
    ELSE num

reduce_single_digit(num) == int(reduce_loop(str(num)))

\* the locals of calculate_life_path_number and the value it returns
life_path_locals(d, m, y) ==
    LET day_sum == reduce_single_digit(d)
        month_sum == reduce_single_digit(m)
        year_sum == reduce_single_digit(sum_digits(str(y)))
        total_sum == day_sum + month_sum + year_sum
    IN  [day_sum |-> day_sum, month_sum |-> month_sum, year_sum |-> year_sum,
         total_sum |-> total_sum,
         result |-> IF total_sum = 11 \/ total_sum = 22 \/ total_sum = 33
                    THEN total_sum
                    ELSE reduce_single_digit(total_sum)]

calculate_life_path_number(d, m, y) == life_path_locals(d, m, y).result

(***************************************************************************)
(* get_facts.py: life_path                                                 *)
(***************************************************************************)
RECURSIVE life_path_loop(_)
life_path_loop(total) ==
    IF total > 9 /\ total \notin {11, 22, 33}
    THEN life_path_loop(sum_digits(str(total)))
    ELSE total

\* a date formatted with %y instead of %Y: the century is not summed
life_path_two_digit_year(y, m, d) ==
    life_path_loop(sum_digits(strftime_Ymd(y % 100, m, d)))

life_path(y, m, d) == life_path_loop(sum_digits(strftime_Ymd(y, m, d)))

(***************************************************************************)
(* Chinese zodiac: get_facts.py chinese_zodiac, index.py                   *)
(* calculate_chinese_zodiac (lists are 1-indexed here)                     *)
(***************************************************************************)
animals == <<"Rat", "Ox", "Tiger", "Rabbit", "Dragon", "Snake",
             "Horse", "Goat", "Monkey", "Rooster", "Dog", "Pig">>

elements10 == <<"Wood", "Wood", "Fire", "Fire", "Earth", "Earth",
                "Metal", "Metal", "Water", "Water">>

elements5 == <<"Wood", "Fire", "Earth", "Metal", "Water">>

\* the polarity as the comment of index.py line 584 words it: odd years Yang
yin_yang_odd_is_yang(y) == IF (y % 2) = 0 THEN "Yin" ELSE "Yang"

yin_yang_of(y) == IF (y % 2) = 0 THEN "Yang" ELSE "Yin"

\* the animal anchored at year 0 instead of year 4
animal_facts_unanchored(y) == animals[(y % 12) + 1]

animal_facts(y) == animals[((y - 4) % 12) + 1]

\* the element anchored at year 0 instead of year 4
element_facts_unanchored(y) == elements10[(y % 10) + 1]

element_facts(y) == elements10[((y - 4) % 10) + 1]

chinese_zodiac(y) ==
    [animal |-> animal_facts(y),
     element |-> element_facts(y),
     yin_yang |-> yin_yang_of(y)]

calculate_chinese_zodiac_no_halving(y) ==
    LET animal_index == (y - 4) % 12
        element_index == ((y - 4) % 10) % 5
    IN  [animal |-> animals[animal_index + 1],
         element |-> elements5[element_index + 1],
         yin_yang |-> IF y % 2 = 0 THEN "Yang" ELSE "Yin"]

calculate_chinese_zodiac(y) ==
    LET animal_index == (y - 4) % 12
        element_index == ((y - 4) % 10) \div 2
    IN  [animal |-> animals[animal_index + 1],
         element |-> elements5[element_index + 1],
         yin_yang |-> IF y % 2 = 0 THEN "Yang" ELSE "Yin"]

(***************************************************************************)
(* State before anything was computed                                      *)
(***************************************************************************)
NoLifePath == [day_sum |-> 0, month_sum |-> 0, year_sum |-> 0,
               total_sum |-> 0, result |-> 0]
NoZodiac == [animal |-> "", element |-> "", yin_yang |-> ""]

\* the nine centers of calculate_human_design, lines 458-469
CenterNames == {"root", "sacral", "solar_plexus", "heart", "throat", "ajna",
                "head", "g", "spleen"}
NoCenters == [c \in CenterNames |-> FALSE]
DefinitionIdle == defined_centers = NoCenters /\ definition = ""
ReduceIdle == reduce_in = 0 /\ reduced = -1 /\ reduced_again = -1

LifePathIdle == life_path_calc = NoLifePath /\ numerology_life_path = 0
ZodiacIdle == chinese = NoZodiac /\ archetype_chinese = NoZodiac
SignUnmapped == sign_index = -1 /\ sign = "" /\ deg_unrounded = -1 /\ deg = -1
SignIdle == body = "" /\ long = 0 /\ SignUnmapped

NoDateTime == [year |-> 0, month |-> 0, day |-> 0, hour |-> 0, minute |-> 0]
NoLocation == [lat |-> 0, lon |-> 0, display_name |-> ""]
NoBodyGraph == [built |-> FALSE, utc |-> NoDateTime, lat |-> 0, lon |-> 0]
NoWestern == [sun_sign |-> "", sun_deg |-> -1, moon_sign |-> "", moon_deg |-> -1,
              ascendant_sign |-> "", asc_deg |-> -1,
              raw |-> [sun_long |-> -1, moon_long |-> -1, asc_long |-> -1]]
NoSubRecord == [calculation_method |-> "not-run"]
\* what a calculator yields when an exception leaves it
Escaped == [calculation_method |-> "raised"]
NoRecord == [kind |-> "none"]

FactsUnset ==
    /\ local_dt = NoDateTime /\ utc_dt = NoDateTime
    /\ geo_matches = -1 /\ location = NoLocation /\ offset = 0
    /\ bg = NoBodyGraph /\ western = NoWestern
BlueprintUnset ==
    /\ astro_data = NoSubRecord /\ numerology = NoSubRecord
    /\ human_design = NoSubRecord /\ chinese_data = NoSubRecord
NoCall == [entry |-> ""]
NoStory == [success |-> FALSE, error |-> "not-run"]
OutsideIdle == now = 0 /\ remembered = NoCall /\ story = NoStory

PipelineIdle ==
    /\ entry = "" /\ date_str = <<>> /\ time_str = <<>> /\ full_name = <<>>
    /\ OutsideIdle
    /\ pc = "idle" /\ trace = <<>> /\ error = ""
    /\ FactsUnset /\ BlueprintUnset /\ result = NoRecord

(***************************************************************************)
(* SpecLifePath: the two life-path routines applied to every calendar date *)
(* of MinYear..MaxYear                                                     *)
(***************************************************************************)
InitLifePath ==
    /\ year \in MinYear..MaxYear
    /\ month \in 1..12
    /\ day \in 1..DaysInMonth(year, month)
    /\ LifePathIdle
    /\ DefinitionIdle
    /\ ReduceIdle
    /\ ZodiacIdle
    /\ SignIdle
    /\ PipelineIdle

CalculateLifePathNumber ==
    /\ life_path_calc = NoLifePath
    /\ life_path_calc' = life_path_locals(day, month, year)
    /\ UNCHANGED <<dateVars, numerology_life_path, zodiacVars, signVars, pipelineVars,
                   definitionVars, reduceVars>>

LifePath ==
    /\ numerology_life_path = 0
    /\ numerology_life_path' = life_path(year, month, day)
    /\ UNCHANGED <<dateVars, life_path_calc, zodiacVars, signVars, pipelineVars,
                   definitionVars, reduceVars>>

NextLifePath == CalculateLifePathNumber \/ LifePath

SpecLifePath == InitLifePath /\ [][NextLifePath]_vars

(***************************************************************************)
(* SpecZodiac: the two Chinese-zodiac routines applied to 1 January of     *)
(* every year of MinZodiacYear..MaxZodiacYear                              *)
(***************************************************************************)
InitZodiac ==
    /\ year \in MinZodiacYear..MaxZodiacYear
    /\ month = 1
    /\ day = 1
    /\ LifePathIdle
    /\ DefinitionIdle
    /\ ReduceIdle
    /\ ZodiacIdle
    /\ SignIdle
    /\ PipelineIdle

ChineseZodiac ==
    /\ chinese = NoZodiac
    /\ chinese' = chinese_zodiac(year)
    /\ UNCHANGED <<dateVars, lifePathVars, archetype_chinese, signVars, pipelineVars,
                   definitionVars, reduceVars>>

CalculateChineseZodiac ==
    /\ archetype_chinese = NoZodiac
    /\ archetype_chinese' = calculate_chinese_zodiac(year)
    /\ UNCHANGED <<dateVars, lifePathVars, chinese, signVars, pipelineVars,
                   definitionVars, reduceVars>>

NextZodiac == ChineseZodiac \/ CalculateChineseZodiac

SpecZodiac == InitZodiac /\ [][NextZodiac]_vars

(***************************************************************************)
(* get_facts.py build_fact_json, "Convert degrees to signs and degrees".   *)
(* A longitude is a whole number of units, upd units to the degree.        *)
(***************************************************************************)
signs == <<"Aries", "Taurus", "Gemini", "Cancer", "Leo", "Virgo",
           "Libra", "Scorpio", "Sagittarius", "Capricorn", "Aquarius", "Pisces">>

\* round(x, 2) keeps 10^2 steps to the degree
HundredthsPerDegree == 100

UnitsPerDegree == HundredthsPerDegree * UnitsPerHundredth

\* int(x) of the quotient a / b: truncation toward zero
trunc_div(a, b) == IF a >= 0 THEN a \div b ELSE -((-a) \div b)

\* a list indexed from 1: signs[int(l / 30) - 1], where Python wraps -1 to Pisces
sign_index_of_from_one(l, upd) == (trunc_div(l, 30 * upd) + 11) % 12

\* int(l / 30)
sign_index_of(l, upd) == trunc_div(l, 30 * upd)

\* l % 30
degree_in_sign(l, upd) == l % (30 * upd)

\* round(d, 2) of a degree d given in units, sub units to the hundredth; the
\* result in hundredths.  A decimal that ends in 5 at the third place is
\* stored as the nearest binary double, above or below the tie, so either
\* neighbour can come out.
round2(d, sub) ==
    LET h == d \div sub
        q == d % sub
    IN  IF 2 * q < sub THEN {h}
        ELSE IF 2 * q > sub THEN {h + 1}
        ELSE {h, h + 1}

(***************************************************************************)
(* SpecSign: the sign mapping of build_fact_json applied to every          *)
(* longitude of [0, 360), for each of the three bodies it maps             *)
(***************************************************************************)
Longitudes == 0..(360 * UnitsPerDegree - 1)

InitSign ==
    /\ body \in {"sun", "moon", "asc"}
    /\ long \in Longitudes
    /\ SignUnmapped
    /\ year = 0 /\ month = 0 /\ day = 0
    /\ LifePathIdle
    /\ DefinitionIdle
    /\ ReduceIdle
    /\ ZodiacIdle
    /\ PipelineIdle

MapSign(b) ==
    /\ body = b
    /\ sign_index = -1
    /\ sign_index' = sign_index_of(long, UnitsPerDegree)
    /\ sign' = signs[sign_index_of(long, UnitsPerDegree) + 1]
    /\ deg_unrounded' = degree_in_sign(long, UnitsPerDegree)
    /\ deg' \in round2(degree_in_sign(long, UnitsPerDegree), UnitsPerHundredth)
    /\ UNCHANGED <<body, long, dateVars, lifePathVars, zodiacVars, pipelineVars,
                   definitionVars, reduceVars>>

\* sun_sign, sun_deg and the "sun_deg" of the record
MapSun == MapSign("sun")
\* moon_sign, moon_deg and the "moon_deg" of the record
MapMoon == MapSign("moon")
\* asc_sign, asc_deg and the "asc_deg" of the record
MapAsc == MapSign("asc")

NextSign == MapSun \/ MapMoon \/ MapAsc

SpecSign == InitSign /\ [][NextSign]_vars

(***************************************************************************)
(* Date and time strings.  A date string is the sequence of its fields     *)
(* between '-' (birth_date.split('-')), a time string the sequence of its  *)
(* fields between ':'.  A field is a decimal numeral (of one or two        *)
(* digits, or four for a year), a non-numeric text, or empty.              *)
(***************************************************************************)
NumTok(n) == [num |-> TRUE, val |-> n]
TextTok == [num |-> FALSE, val |-> 1]
EmptyTok == [num |-> FALSE, val |-> 0]

DateNumbers == {1, 2, 12, 13, 31, 1990}
TimeNumbers == {0, 23, 24, 60}

DateTokens == {NumTok(n) : n \in DateNumbers} \cup {TextTok, EmptyTok}
TimeTokens == {NumTok(n) : n \in TimeNumbers} \cup {TextTok, EmptyTok}

DateStrings == UNION {[1..n -> DateTokens] : n \in 1..MaxDateFields}
TimeStrings == UNION {[1..n -> TimeTokens] : n \in 1..MaxTimeFields}

\* the empty string splits into one empty field
EmptyString == <<EmptyTok>>

\* datetime.strptime(f"{date_str} {time_str}", "%Y-%m-%d %H:%M") accepts
\* the format only: %Y four digits, %m 1..12, %d 1..31, %H 0..23, %M 0..59
strptime_format_ok(d, t) ==
    /\ Len(d) = 3 /\ Len(t) = 2
    /\ \A i \in 1..3 : d[i].num
    /\ \A i \in 1..2 : t[i].num
    /\ d[1].val >= 1000 /\ d[1].val <= 9999
    /\ d[2].val >= 1 /\ d[2].val <= 12
    /\ d[3].val >= 1 /\ d[3].val <= 31
    /\ t[1].val <= 23
    /\ t[2].val <= 59

\* strptime without datetime's calendar check of the day
strptime_ok_unchecked_day(d, t) == strptime_format_ok(d, t)

\* ... and then builds the datetime, which checks the day against the month
strptime_ok(d, t) ==
    /\ strptime_format_ok(d, t)
    /\ d[3].val <= DaysInMonth(d[1].val, d[2].val)

strptime(d, t) ==
    [year |-> d[1].val, month |-> d[2].val, day |-> d[3].val,
     hour |-> t[1].val, minute |-> t[2].val]

(***************************************************************************)
(* datetime arithmetic: local_dt - timedelta(seconds=offset), with the     *)
(* offset in minutes (gmtOffset * 3600 seconds is a whole number of them)  *)
(***************************************************************************)
previous_day(dt) ==
    IF dt.day > 1 THEN [dt EXCEPT !.day = dt.day - 1]
    ELSE IF dt.month > 1
         THEN [dt EXCEPT !.month = dt.month - 1,
                         !.day = DaysInMonth(dt.year, dt.month - 1)]
         ELSE [dt EXCEPT !.year = dt.year - 1, !.month = 12, !.day = 31]

next_day(dt) ==
    IF dt.day < DaysInMonth(dt.year, dt.month) THEN [dt EXCEPT !.day = dt.day + 1]
    ELSE IF dt.month < 12
         THEN [dt EXCEPT !.month = dt.month + 1, !.day = 1]
         ELSE [dt EXCEPT !.year = dt.year + 1, !.month = 1, !.day = 1]

RECURSIVE shift_days(_, _)
shift_days(dt, n) ==
    IF n = 0 THEN dt
    ELSE IF n > 0 THEN shift_days(next_day(dt), n - 1)
    ELSE shift_days(previous_day(dt), n + 1)

\* the offset applied with the wrong sign
minus_minutes_added(dt, minutes) ==
    LET total == dt.hour * 60 + dt.minute + minutes
        moved == shift_days(dt, total \div 1440)
    IN  [moved EXCEPT !.hour = (total % 1440) \div 60,
                      !.minute = (total % 1440) % 60]

minus_minutes(dt, minutes) ==
    LET total == dt.hour * 60 + dt.minute - minutes
        moved == shift_days(dt, total \div 1440)
    IN  [moved EXCEPT !.hour = (total % 1440) \div 60,
                      !.minute = (total % 1440) % 60]

\* date.toordinal(): days since 0001-01-01, that day being 1
RECURSIVE days_before_month(_, _)
days_before_month(y, m) ==
    IF m = 1 THEN 0 ELSE days_before_month(y, m - 1) + DaysInMonth(y, m - 1)

toordinal(dt) ==
    (dt.year - 1) * 365 + ((dt.year - 1) \div 4) - ((dt.year - 1) \div 100)
    + ((dt.year - 1) \div 400) + days_before_month(dt.year, dt.month) + dt.day

(***************************************************************************)
(* get_facts.py: the outbound lookups                                      *)
(***************************************************************************)
\* what Nominatim can answer with limit=1: no match, or one match
GeoResponses ==
    {<<>>,
     <<[lat |-> 40, lon |-> -74, display_name |-> "New York"]>>,
     <<[lat |-> 27, lon |-> 85, display_name |-> "Kathmandu"]>>}

\* what GeoNames can answer: a gmtOffset (here in minutes), or a status
\* message without one
TzResponses ==
    {[has_offset |-> TRUE, gmtOffset |-> -300],
     [has_offset |-> TRUE, gmtOffset |-> 0],
     [has_offset |-> TRUE, gmtOffset |-> 345],
     [has_offset |-> FALSE, gmtOffset |-> 0]}

\* a geocode that answers (0, 0) when nothing matched
geocode_guessing(response) ==
    IF Len(response) = 0
    THEN [raised |-> FALSE, value |-> [lat |-> 0, lon |-> 0, display_name |-> "Unknown"]]
    ELSE [raised |-> FALSE, value |-> response[1]]

\* requests.get(url).json()[0]: IndexError on an empty list
geocode(response) ==
    IF Len(response) = 0
    THEN [raised |-> TRUE, value |-> NoLocation]
    ELSE [raised |-> FALSE, value |-> response[1]]

\* tz["gmtOffset"] * 3600: KeyError when the answer has no gmtOffset
utc_offset(tz) ==
    IF tz.has_offset
    THEN [raised |-> FALSE, value |-> tz.gmtOffset]
    ELSE [raised |-> TRUE, value |-> 0]

(***************************************************************************)
(* The libraries build_fact_json calls.  hdkit and swisseph are functions  *)
(* of the UTC instant and the coordinates; the bodygraph is kept as the    *)
(* arguments it was built from, the longitudes are mean longitudes.        *)
(***************************************************************************)
bodygraph_from_datetime(utc, lat, lon) ==
    [built |-> TRUE, utc |-> utc, lat |-> lat, lon |-> lon]

minutes_of(utc) == toordinal(utc) * 1440 + utc.hour * 60 + utc.minute

\* the longitude of a point that goes round once in period minutes
mean_longitude(minutes, period) ==
    LET phase == minutes % period
        whole == (phase * 360) \div period
        rest == (phase * 360) % period
    IN  whole * UnitsPerDegree + ((rest * UnitsPerDegree) \div period)

\* the Sun goes round in 525949 minutes, the Moon in 39343, the ascendant
\* in 1436 and is ahead by the observer's longitude
calc_sun(utc) == mean_longitude(minutes_of(utc), 525949)
calc_moon(utc) == mean_longitude(minutes_of(utc), 39343)
houses_asc(utc, lat, lon) ==
    (mean_longitude(minutes_of(utc), 1436) + lon * UnitsPerDegree)
        % (360 * UnitsPerDegree)

\* lines 67-101: the three longitudes as signs and rounded degrees
western_records(sun_long, moon_long, asc) ==
    {[sun_sign |-> signs[sign_index_of(sun_long, UnitsPerDegree) + 1],
      sun_deg |-> sd,
      moon_sign |-> signs[sign_index_of(moon_long, UnitsPerDegree) + 1],
      moon_deg |-> md,
      ascendant_sign |-> signs[sign_index_of(asc, UnitsPerDegree) + 1],
      asc_deg |-> ad,
      raw |-> [sun_long |-> sun_long, moon_long |-> moon_long, asc_long |-> asc]] :
        sd \in round2(degree_in_sign(sun_long, UnitsPerDegree), UnitsPerHundredth),
        md \in round2(degree_in_sign(moon_long, UnitsPerDegree), UnitsPerHundredth),
        ad \in round2(degree_in_sign(asc, UnitsPerDegree), UnitsPerHundredth)}

(***************************************************************************)
(* build_fact_json, statement by statement                                 *)
(***************************************************************************)
Raise(kind) ==
    /\ pc' = "raised"
    /\ error' = kind
    /\ result' = NoRecord

\* 1. parse date / time
Parse ==
    /\ entry = "build_fact_json" /\ pc = "parse"
    /\ IF strptime_ok(date_str, time_str)
       THEN /\ local_dt' = strptime(date_str, time_str)
            /\ pc' = "geocode"
            /\ UNCHANGED <<error, result>>
       ELSE /\ Raise("ValueError")
            /\ UNCHANGED local_dt
    /\ UNCHANGED <<calcVars, inputVars, outsideVars, trace, utc_dt, geo_matches, location,
                   offset, bg, western, blueprintVars>>

\* 2. geocode
Geocode ==
    /\ entry = "build_fact_json" /\ pc = "geocode"
    /\ trace' = Append(trace, "geocode")
    /\ \E response \in GeoResponses :
          /\ geo_matches' = Len(response)
          /\ IF geocode(response).raised
             THEN /\ Raise("IndexError")
                  /\ UNCHANGED location
             ELSE /\ location' = geocode(response).value
                  /\ pc' = "utc_offset"
                  /\ UNCHANGED <<error, result>>
    /\ UNCHANGED <<calcVars, inputVars, outsideVars, local_dt, utc_dt, offset, bg, western,
                   blueprintVars>>

\* 2. ... & tz, and the UTC instant
UtcOffset ==
    /\ entry = "build_fact_json" /\ pc = "utc_offset"
    /\ trace' = Append(trace, "utc_offset")
    /\ \E tz \in TzResponses :
          IF utc_offset(tz).raised
          THEN /\ Raise("KeyError")
               /\ UNCHANGED <<offset, utc_dt>>
          ELSE /\ offset' = utc_offset(tz).value
               /\ utc_dt' = minus_minutes(local_dt, utc_offset(tz).value)
               /\ pc' = "bodygraph"
               /\ UNCHANGED <<error, result>>
    /\ UNCHANGED <<calcVars, inputVars, outsideVars, local_dt, geo_matches, location, bg,
                   western, blueprintVars>>

\* 3. create HD bodygraph
BodyGraph ==
    /\ entry = "build_fact_json" /\ pc = "bodygraph"
    /\ trace' = Append(trace, "bodygraph")
    /\ bg' = bodygraph_from_datetime(utc_dt, location.lat, location.lon)
    /\ pc' = "ephemeris"
    /\ UNCHANGED <<calcVars, inputVars, outsideVars, error, result, local_dt, utc_dt,
                   geo_matches, location, offset, western, blueprintVars>>

\* 4. western astro (Sun/Moon/Asc), signs and degrees
Ephemeris ==
    /\ entry = "build_fact_json" /\ pc = "ephemeris"
    /\ trace' = Append(trace, "ephemeris")
    /\ western' \in western_records(calc_sun(utc_dt), calc_moon(utc_dt),
                                    houses_asc(utc_dt, location.lat, location.lon))
    /\ pc' = "output"
    /\ UNCHANGED <<calcVars, inputVars, outsideVars, error, result, local_dt, utc_dt,
                   geo_matches, location, offset, bg, blueprintVars>>

\* the date-derived sub-records read from the UTC instant
OutputFromUtc ==
    /\ entry = "build_fact_json" /\ pc = "output"
    /\ trace' = trace \o <<"chinese_zodiac", "life_path">>
    /\ result' = [kind |-> "facts",
                  name |-> full_name,
                  birth |-> [local |-> local_dt, utc |-> utc_dt,
                             lat |-> location.lat, lon |-> location.lon,
                             location |-> location.display_name],
                  western |-> western,
                  chinese |-> chinese_zodiac(utc_dt.year),
                  numerology |-> [life_path |->
                      life_path(utc_dt.year, utc_dt.month, utc_dt.day)],
                  human_design |-> bg]
    /\ pc' = "returned"
    /\ UNCHANGED <<calcVars, inputVars, outsideVars, error, factVars, blueprintVars>>

\* a record that carries the time it was made
OutputStamped ==
    /\ entry = "build_fact_json" /\ pc = "output"
    /\ trace' = trace \o <<"chinese_zodiac", "life_path">>
    /\ result' = [kind |-> "facts",
                  name |-> full_name,
                  birth |-> [local |-> local_dt, utc |-> utc_dt,
                             lat |-> location.lat, lon |-> location.lon,
                             location |-> location.display_name],
                  western |-> western,
                  chinese |-> chinese_zodiac(local_dt.year),
                  numerology |-> [life_path |->
                      life_path(local_dt.year, local_dt.month, local_dt.day)],
                  human_design |-> bg,
                  generated_at |-> now]
    /\ pc' = "returned"
    /\ UNCHANGED <<calcVars, inputVars, outsideVars, error, factVars, blueprintVars>>

\* 5. output JSON
Output ==
    /\ entry = "build_fact_json" /\ pc = "output"
    /\ trace' = trace \o <<"chinese_zodiac", "life_path">>
    /\ result' = [kind |-> "facts",
                  name |-> full_name,
                  birth |-> [local |-> local_dt, utc |-> utc_dt,
                             lat |-> location.lat, lon |-> location.lon,
                             location |-> location.display_name],
                  western |-> western,
                  chinese |-> chinese_zodiac(local_dt.year),
                  numerology |-> [life_path |->
                      life_path(local_dt.year, local_dt.month, local_dt.day)],
                  human_design |-> bg]
    /\ pc' = "returned"
    /\ UNCHANGED <<calcVars, inputVars, outsideVars, error, factVars, blueprintVars>>

BuildFactJson == Parse \/ Geocode \/ UtcOffset \/ BodyGraph \/ Ephemeris \/ Output

(***************************************************************************)
(* index.py: the calculators of generate_blueprint, on the date and time   *)
(* strings                                                                 *)
(***************************************************************************)
\* year, month, day = map(int, birth_date.split('-')) succeeds
split_ints_ok(birth_date) ==
    /\ Len(birth_date) = 3
    /\ \A i \in 1..3 : birth_date[i].num

get_sun_sign(m, d) ==
    IF (m = 3 /\ d >= 21) \/ (m = 4 /\ d <= 19) THEN "Aries"
    ELSE IF (m = 4 /\ d >= 20) \/ (m = 5 /\ d <= 20) THEN "Taurus"
    ELSE IF (m = 5 /\ d >= 21) \/ (m = 6 /\ d <= 20) THEN "Gemini"
    ELSE IF (m = 6 /\ d >= 21) \/ (m = 7 /\ d <= 22) THEN "Cancer"
    ELSE IF (m = 7 /\ d >= 23) \/ (m = 8 /\ d <= 22) THEN "Leo"
    ELSE IF (m = 8 /\ d >= 23) \/ (m = 9 /\ d <= 22) THEN "Virgo"
    ELSE IF (m = 9 /\ d >= 23) \/ (m = 10 /\ d <= 22) THEN "Libra"
    ELSE IF (m = 10 /\ d >= 23) \/ (m = 11 /\ d <= 21) THEN "Scorpio"
    ELSE IF (m = 11 /\ d >= 22) \/ (m = 12 /\ d <= 21) THEN "Sagittarius"
    ELSE IF (m = 12 /\ d >= 22) \/ (m = 1 /\ d <= 19) THEN "Capricorn"
    ELSE IF (m = 1 /\ d >= 20) \/ (m = 2 /\ d <= 18) THEN "Aquarius"
    ELSE "Pisces"

get_moon_sign(y, m, d) == signs[((y + m + d) % 12) + 1]

\* ":" in time, and then int(time.split(":")[0]) raises on a non-numeral
rising_sign_raises(time) == Len(time) >= 2 /\ ~time[1].num

get_rising_sign(y, m, d, time) ==
    LET hour == IF Len(time) >= 2 THEN time[1].val ELSE 0
    IN  signs[((hour + d + m) % 12) + 1]

get_element_for_sign(sg) ==
    IF sg \in {"Aries", "Leo", "Sagittarius"} THEN "Fire"
    ELSE IF sg \in {"Taurus", "Virgo", "Capricorn"} THEN "Earth"
    ELSE IF sg \in {"Gemini", "Libra", "Aquarius"} THEN "Air"
    ELSE IF sg \in {"Cancer", "Scorpio", "Pisces"} THEN "Water"
    ELSE "Unknown"

\* the sign fields without the symbol the code appends to them
calculate_astrology(birth_date, birth_time) ==
    LET ok == split_ints_ok(birth_date)
        y == IF ok THEN birth_date[1].val ELSE 2000
        m == IF ok THEN birth_date[2].val ELSE 1
        d == IF ok THEN birth_date[3].val ELSE 1
    IN  IF rising_sign_raises(birth_time)
        THEN [sun_sign |-> "Unknown", moon_sign |-> "Unknown",
              rising_sign |-> "Unknown", sun_element |-> "",
              calculation_method |-> "error-fallback"]
        ELSE [sun_sign |-> get_sun_sign(m, d),
              moon_sign |-> get_moon_sign(y, m, d),
              rising_sign |-> get_rising_sign(y, m, d, birth_time),
              sun_element |-> get_element_for_sign(get_sun_sign(m, d)),
              calculation_method |-> "python-simplified"]

(***************************************************************************)
(* Names: a string is the sequence of the code points of its characters    *)
(***************************************************************************)
\* 'a', 'E', 'r', ' ' and the non-ASCII letter e-acute
NameChars == {97, 69, 114, 32, 233}
\* letters outside ASCII for which str.isalpha() holds
NonAsciiLetters == {233}

Names == UNION {[1..n -> NameChars] : n \in 0..MaxNameLen}

\* c.lower(): only 'A'..'Z' change among the characters modelled
lower(c) == IF c \in 65..90 THEN c + 32 ELSE c

isalpha(c) == lower(c) \in 97..122 \/ c \in NonAsciiLetters

vowels == {97, 101, 105, 111, 117}
consonants == (97..122) \ vowels

RECURSIVE sum(_)
sum(values) ==
    IF values = <<>> THEN 0 ELSE Head(values) + sum(Tail(values))

\* x or 9
\* a reduction that leaves a multiple of nine at 0
or_9_missing(x) == x

or_9(x) == IF x = 0 THEN 9 ELSE x

calculate_expression_number(name) ==
    IF name = <<>> THEN 9
    ELSE or_9(sum([i \in 1..Len(name) |->
                      IF isalpha(name[i]) THEN lower(name[i]) - 96 ELSE 0]) % 9)

\* a vowel test that forgets c.lower()
calculate_soul_urge_number_case_sensitive(name) ==
    IF name = <<>> THEN 5
    ELSE LET vowel_values ==
                 sum([i \in 1..Len(name) |->
                         IF name[i] \in vowels THEN lower(name[i]) - 96 ELSE 0])
         IN  or_9(vowel_values % 9)

calculate_soul_urge_number(name) ==
    IF name = <<>> THEN 5
    ELSE LET vowel_values ==
                 sum([i \in 1..Len(name) |->
                         IF lower(name[i]) \in vowels
                         THEN lower(name[i]) - 96 ELSE 0])
         IN  or_9(vowel_values % 9)

\* a consonant test that takes every letter for a consonant
calculate_personality_number_all_letters(name) ==
    IF name = <<>> THEN 3
    ELSE LET consonant_values ==
                 sum([i \in 1..Len(name) |->
                         IF isalpha(name[i]) THEN lower(name[i]) - 96 ELSE 0])
         IN  or_9(consonant_values % 9)

calculate_personality_number(name) ==
    IF name = <<>> THEN 3
    ELSE LET consonant_values ==
                 sum([i \in 1..Len(name) |->
                         IF lower(name[i]) \in consonants
                         THEN lower(name[i]) - 96 ELSE 0])
         IN  or_9(consonant_values % 9)

(***************************************************************************)
(* The clock: datetime.now()                                               *)
(***************************************************************************)
\* the year of the first instant explored, and the ticks that make a year
FirstClockYear == 2025
TicksPerYear == 2
current_year == FirstClockYear + (now \div TicksPerYear)

calculate_personal_year(d, m) ==
    LET current_year_sum == sum_digits(str(current_year))
        birth_day_month_sum == reduce_single_digit(d) + reduce_single_digit(m)
    IN  reduce_single_digit(current_year_sum + birth_day_month_sum)

get_default_numerology ==
    [life_path_number |-> 7, birth_day_number |-> 1, personal_year |-> 1,
     expression_number |-> 9, soul_urge_number |-> 5,
     personality_number |-> 3, calculation_method |-> "fallback"]

\* calculation_method "" = key absent
calculate_numerology(birth_date, name) ==
    IF birth_date = EmptyString THEN get_default_numerology
    ELSE IF ~split_ints_ok(birth_date) THEN get_default_numerology
    ELSE [life_path_number |->
              calculate_life_path_number(birth_date[3].val, birth_date[2].val,
                                         birth_date[1].val),
          birth_day_number |-> birth_date[3].val,
          personal_year |->
              calculate_personal_year(birth_date[3].val, birth_date[2].val),
          expression_number |-> calculate_expression_number(name),
          soul_urge_number |-> calculate_soul_urge_number(name),
          personality_number |-> calculate_personality_number(name),
          calculation_method |-> ""]

hd_types == <<"Generator", "Projector", "Manifestor", "Manifesting Generator",
              "Reflector">>
hd_authorities == <<"Emotional", "Sacral", "Splenic", "Ego", "Self-Projected",
                    "Mental">>

\* a heart center read from the sum of day and month, not their product
hd_centers_heart_by_sum(y, m, d) ==
    [root |-> (d % 2 = 0),
     sacral |-> (m % 2 = 0),
     solar_plexus |-> ((d + m) % 2 = 0),
     heart |-> ((d + m) % 2 = 0),
     throat |-> ((y % 10) % 2 = 0),
     ajna |-> ((d + y) % 2 = 0),
     head |-> ((m + y) % 2 = 0),
     g |-> ((d + m + y) % 2 = 0),
     spleen |-> (((d % 2) * (m % 2) * (y % 2)) % 2 = 0)]

\* (the parities are multiplied, not the numbers: same remainder mod 2)
hd_centers(y, m, d) ==
    [root |-> (d % 2 = 0),
     sacral |-> (m % 2 = 0),
     solar_plexus |-> ((d + m) % 2 = 0),
     heart |-> (((d % 2) * (m % 2)) % 2 = 0),
     throat |-> ((y % 10) % 2 = 0),
     ajna |-> ((d + y) % 2 = 0),
     head |-> ((m + y) % 2 = 0),
     g |-> ((d + m + y) % 2 = 0),
     spleen |-> (((d % 2) * (m % 2) * (y % 2)) % 2 = 0)]

get_hd_strategy(hd_type) ==
    IF hd_type = "Generator" THEN "Wait to respond"
    ELSE IF hd_type = "Manifesting Generator" THEN "Wait to respond, then inform"
    ELSE IF hd_type = "Projector" THEN "Wait for the invitation"
    ELSE IF hd_type = "Manifestor" THEN "Inform before acting"
    ELSE IF hd_type = "Reflector" THEN "Wait a lunar cycle (28 days)"
    ELSE "Wait to respond"

\* a banding whose first threshold is off by one
get_hd_definition_above_seven(centers) ==
    LET connected_count == Cardinality({c \in DOMAIN centers : centers[c]})
    IN  IF connected_count > 7 THEN "Single"
        ELSE IF connected_count >= 4 THEN "Split"
        ELSE "Triple Split"

get_hd_definition(centers) ==
    LET connected_count == Cardinality({c \in DOMAIN centers : centers[c]})
    IN  IF connected_count >= 7 THEN "Single"
        ELSE IF connected_count >= 4 THEN "Split"
        ELSE "Triple Split"

\* a calculator without its outer try/except: the failure of the date parse
\* leaves the calculator
calculate_human_design_unguarded(birth_date) ==
    IF ~split_ints_ok(birth_date)
    THEN Escaped
    ELSE LET y == birth_date[1].val
             m == birth_date[2].val
             d == birth_date[3].val
             hd_type == hd_types[((m + d) % 5) + 1]
         IN  [type |-> hd_type,
              profile |-> <<(y % 6) + 1, 3>>,
              authority |-> hd_authorities[((d + m) % 6) + 1],
              strategy |-> get_hd_strategy(hd_type),
              definition |-> get_hd_definition(hd_centers(y, m, d)),
              centers |-> hd_centers(y, m, d),
              calculation_method |-> ""]

\* profile f"{profile_num}/3" as the pair <<profile_num, 3>>
calculate_human_design(birth_date) ==
    IF ~split_ints_ok(birth_date)
    THEN [type |-> "Generator", profile |-> <<3, 5>>, authority |-> "Emotional",
          strategy |-> "Wait to respond", definition |-> "Split",
          calculation_method |-> "error-fallback"]
    ELSE LET y == birth_date[1].val
             m == birth_date[2].val
             d == birth_date[3].val
             hd_type == hd_types[((m + d) % 5) + 1]
         IN  [type |-> hd_type,
              profile |-> <<(y % 6) + 1, 3>>,
              authority |-> hd_authorities[((d + m) % 6) + 1],
              strategy |-> get_hd_strategy(hd_type),
              definition |-> get_hd_definition(hd_centers(y, m, d)),
              centers |-> hd_centers(y, m, d),
              calculation_method |-> ""]

get_default_chinese_zodiac ==
    [animal |-> "Horse", element |-> "Fire", yin_yang |-> "Yang",
     calculation_method |-> "fallback"]

\* calculate_chinese_zodiac from the string: the year is the first field
calculate_chinese_zodiac_birth_date(birth_date) ==
    IF birth_date = EmptyString THEN get_default_chinese_zodiac
    ELSE IF ~birth_date[1].num THEN get_default_chinese_zodiac
    ELSE LET z == calculate_chinese_zodiac(birth_date[1].val)
         IN  [animal |-> z.animal, element |-> z.element,
              yin_yang |-> z.yin_yang, calculation_method |-> ""]

(***************************************************************************)
(* generate_blueprint, calculator by calculator                            *)
(***************************************************************************)
\* lines 71 and 134-137: an exception that leaves a calculator leaves
\* generate_blueprint too
BlueprintAstrology ==
    /\ entry = "generate_blueprint" /\ pc = "astrology"
    /\ trace' = Append(trace, "calculate_astrology")
    /\ LET r == calculate_astrology(date_str, time_str)
       IN  IF r = Escaped
           THEN Raise("Exception") /\ UNCHANGED astro_data
           ELSE /\ astro_data' = r
                /\ pc' = "numerology"
                /\ UNCHANGED <<error, result>>
    /\ UNCHANGED <<calcVars, inputVars, outsideVars, factVars, numerology,
                   human_design, chinese_data>>

BlueprintNumerology ==
    /\ entry = "generate_blueprint" /\ pc = "numerology"
    /\ trace' = Append(trace, "calculate_numerology")
    /\ LET r == calculate_numerology(date_str, full_name)
       IN  IF r = Escaped
           THEN Raise("Exception") /\ UNCHANGED numerology
           ELSE /\ numerology' = r
                /\ pc' = "human_design"
                /\ UNCHANGED <<error, result>>
    /\ UNCHANGED <<calcVars, inputVars, outsideVars, factVars, astro_data,
                   human_design, chinese_data>>

BlueprintHumanDesign ==
    /\ entry = "generate_blueprint" /\ pc = "human_design"
    /\ trace' = Append(trace, "calculate_human_design")
    /\ LET r == calculate_human_design(date_str)
       IN  IF r = Escaped
           THEN Raise("Exception") /\ UNCHANGED human_design
           ELSE /\ human_design' = r
                /\ pc' = "chinese_zodiac"
                /\ UNCHANGED <<error, result>>
    /\ UNCHANGED <<calcVars, inputVars, outsideVars, factVars, astro_data,
                   numerology, chinese_data>>

BlueprintChineseZodiac ==
    /\ entry = "generate_blueprint" /\ pc = "chinese_zodiac"
    /\ trace' = Append(trace, "calculate_chinese_zodiac")
    /\ LET r == calculate_chinese_zodiac_birth_date(date_str)
       IN  IF r = Escaped
           THEN Raise("Exception") /\ UNCHANGED chinese_data
           ELSE /\ chinese_data' = r
                /\ pc' = "assemble"
                /\ UNCHANGED <<error, result>>
    /\ UNCHANGED <<calcVars, inputVars, outsideVars, factVars, astro_data,
                   numerology, human_design>>

BlueprintAssemble ==
    /\ entry = "generate_blueprint" /\ pc = "assemble"
    /\ result' = [kind |-> "blueprint",
                  user_meta |-> [full_name |-> full_name,
                                 birth_date |-> date_str,
                                 birth_time_local |-> time_str],
                  energy_strategy_human_design |-> human_design,
                  values_life_path |-> numerology,
                  archetype_western |-> astro_data,
                  archetype_chinese |-> chinese_data,
                  calculation_timestamp |-> now]
    /\ pc' = "returned"
    /\ UNCHANGED <<calcVars, inputVars, outsideVars, trace, error, factVars, blueprintVars>>

GenerateBlueprint ==
    \/ BlueprintAstrology \/ BlueprintNumerology \/ BlueprintHumanDesign
    \/ BlueprintChineseZodiac \/ BlueprintAssemble

(***************************************************************************)
(* SpecPipeline: one call of an entry point, on every date and time string *)
(* of the bounds                                                           *)
(***************************************************************************)
\* the name of the calls explored: "Er"
PipelineNames == {<<69, 114>>}

InitPipeline ==
    /\ entry \in {"build_fact_json", "generate_blueprint"}
    /\ date_str \in DateStrings
    /\ time_str \in TimeStrings
    /\ full_name \in PipelineNames
    /\ OutsideIdle
    /\ pc = IF entry = "build_fact_json" THEN "parse" ELSE "astrology"
    /\ trace = <<>> /\ error = ""
    /\ FactsUnset /\ BlueprintUnset /\ result = NoRecord
    /\ year = 0 /\ month = 0 /\ day = 0
    /\ LifePathIdle
    /\ DefinitionIdle
    /\ ReduceIdle
    /\ ZodiacIdle
    /\ SignIdle

NextPipeline ==
    \/ Parse \/ Geocode \/ UtcOffset \/ BodyGraph \/ Ephemeris \/ Output
    \/ BlueprintAstrology \/ BlueprintNumerology \/ BlueprintHumanDesign
    \/ BlueprintChineseZodiac \/ BlueprintAssemble

SpecPipeline == InitPipeline /\ [][NextPipeline]_vars

(***************************************************************************)
(* SpecDefinition: get_hd_definition applied to every assignment of        *)
(* true/false to the nine centers                                          *)
(***************************************************************************)
InitDefinition ==
    /\ defined_centers \in [CenterNames -> BOOLEAN]
    /\ definition = ""
    /\ year = 0 /\ month = 0 /\ day = 0
    /\ LifePathIdle
    /\ ReduceIdle
    /\ ZodiacIdle
    /\ SignIdle
    /\ PipelineIdle

GetHdDefinition ==
    /\ definition = ""
    /\ definition' = get_hd_definition(defined_centers)
    /\ UNCHANGED <<dateVars, lifePathVars, zodiacVars, signVars, defined_centers,
                   reduceVars, pipelineVars>>

NextDefinition == GetHdDefinition

SpecDefinition == InitDefinition /\ [][NextDefinition]_vars

(***************************************************************************)
(* SpecReduce: reduce_single_digit applied to every number of              *)
(* 0..MaxReduceInput, and once more to what it returned                    *)
(***************************************************************************)
InitReduce ==
    /\ reduce_in \in 0..MaxReduceInput
    /\ reduced = -1 /\ reduced_again = -1
    /\ year = 0 /\ month = 0 /\ day = 0
    /\ LifePathIdle
    /\ DefinitionIdle
    /\ ZodiacIdle
    /\ SignIdle
    /\ PipelineIdle

ReduceSingleDigit ==
    /\ reduced = -1
    /\ reduced' = reduce_single_digit(reduce_in)
    /\ UNCHANGED <<dateVars, lifePathVars, zodiacVars, signVars, definitionVars,
                   reduce_in, reduced_again, pipelineVars>>

ReduceAgain ==
    /\ reduced # -1 /\ reduced_again = -1
    /\ reduced_again' = reduce_single_digit(reduced)
    /\ UNCHANGED <<dateVars, lifePathVars, zodiacVars, signVars, definitionVars,
                   reduce_in, reduced, pipelineVars>>

NextReduce == ReduceSingleDigit \/ ReduceAgain

SpecReduce == InitReduce /\ [][NextReduce]_vars

(***************************************************************************)
(* SpecNumerology: the numerology step of generate_blueprint on every      *)
(* calendar date of a leap year, on dates that do not parse, and on every  *)
(* name of at most MaxNameLen characters                                   *)
(***************************************************************************)
NumerologyYears == {2000}
NumerologyDates ==
    {<<NumTok(y), NumTok(m), NumTok(d)>> :
        y \in NumerologyYears, m \in 1..12, d \in 1..31}
Midnight == <<NumTok(0), NumTok(0)>>

InitNumerology ==
    /\ entry = "generate_blueprint"
    /\ date_str \in {ds \in NumerologyDates :
                        ds[3].val <= DaysInMonth(ds[1].val, ds[2].val)}
                    \cup {EmptyString, <<TextTok>>, <<NumTok(1990), NumTok(1)>>}
    /\ time_str = Midnight
    /\ full_name \in Names
    /\ OutsideIdle
    /\ pc = "numerology"
    /\ trace = <<"calculate_astrology">> /\ error = ""
    /\ FactsUnset /\ result = NoRecord
    /\ astro_data = calculate_astrology(date_str, time_str)
    /\ numerology = NoSubRecord /\ human_design = NoSubRecord
    /\ chinese_data = NoSubRecord
    /\ year = 0 /\ month = 0 /\ day = 0
    /\ LifePathIdle
    /\ DefinitionIdle
    /\ ReduceIdle
    /\ ZodiacIdle
    /\ SignIdle

NextNumerology == BlueprintNumerology

SpecNumerology == InitNumerology /\ [][NextNumerology]_vars

(***************************************************************************)
(* SpecUtc: build_fact_json on local times next to the day, month and year *)
(* boundaries of a common year and of a leap year                          *)
(***************************************************************************)
UtcYears == {1999, 2000}
UtcDates ==
    {<<NumTok(y), NumTok(m), NumTok(d)>> :
        y \in UtcYears, m \in 1..12, d \in {1, 28, 29, 30, 31}}
UtcTimes ==
    {<<NumTok(h), NumTok(mi)>> : h \in {0, 5, 12, 18, 23}, mi \in {0, 14, 15, 59}}

InitUtc ==
    /\ entry = "build_fact_json"
    /\ date_str \in {ds \in UtcDates :
                        ds[3].val \in {1, 28, DaysInMonth(ds[1].val, ds[2].val)}}
    /\ time_str \in UtcTimes
    /\ full_name \in PipelineNames
    /\ OutsideIdle
    /\ pc = "parse"
    /\ trace = <<>> /\ error = ""
    /\ FactsUnset /\ BlueprintUnset /\ result = NoRecord
    /\ year = 0 /\ month = 0 /\ day = 0
    /\ LifePathIdle
    /\ DefinitionIdle
    /\ ReduceIdle
    /\ ZodiacIdle
    /\ SignIdle

NextUtc == Parse \/ Geocode \/ UtcOffset \/ BodyGraph \/ Ephemeris \/ Output

SpecUtc == InitUtc /\ [][NextUtc]_vars

(***************************************************************************)
(* compose_story.py: generate_blueprint_narrative.  The completion is what *)
(* the OpenAI client did: it raised (no key, network, API error), or it    *)
(* returned a completion with or without a choice in it.                   *)
(***************************************************************************)
ChatOutcomes ==
    {[raised |-> TRUE, choices |-> 0, content |-> "", model |-> "",
      total_tokens |-> 0],
     [raised |-> FALSE, choices |-> 0, content |-> "", model |-> "gpt-4o-mini",
      total_tokens |-> 0],
     [raised |-> FALSE, choices |-> 1, content |-> "narrative",
      model |-> "gpt-4o-mini", total_tokens |-> 3500]}

\* an except branch that answers without the facts
generate_blueprint_narrative_losing_facts(facts_json, chat) ==
    IF chat.raised THEN [success |-> FALSE, error |-> "APIError"]
    ELSE IF chat.choices = 0 THEN [success |-> FALSE, error |-> "IndexError"]
    ELSE [success |-> TRUE, facts |-> facts_json, narrative |-> chat.content,
          meta |-> [model_used |-> chat.model, tokens_used |-> chat.total_tokens]]

\* the whole body is inside try / except Exception: lines 20-51
generate_blueprint_narrative(facts_json, chat) ==
    IF chat.raised
    THEN [success |-> FALSE, error |-> "APIError", facts |-> facts_json]
    ELSE IF chat.choices = 0
    THEN [success |-> FALSE, error |-> "IndexError", facts |-> facts_json]
    ELSE [success |-> TRUE, facts |-> facts_json, narrative |-> chat.content,
          meta |-> [model_used |-> chat.model, tokens_used |-> chat.total_tokens]]

\* compose_story.py on the record build_fact_json printed
GenerateBlueprintNarrative ==
    /\ entry = "build_fact_json" /\ pc = "returned"
    /\ \E chat \in ChatOutcomes :
          story' = generate_blueprint_narrative(result, chat)
    /\ pc' = "narrated"
    /\ UNCHANGED <<calcVars, inputVars, now, remembered, trace, error, factVars,
                   blueprintVars, result>>

(***************************************************************************)
(* SpecStory: build_fact_json followed by the narrative stage              *)
(***************************************************************************)
NextStory == NextUtc \/ GenerateBlueprintNarrative

SpecStory == InitUtc /\ [][NextStory]_vars

(***************************************************************************)
(* SpecRequests: calls of the two entry points one after the other, while  *)
(* the clock runs.  One finished call is remembered, with the answers the  *)
(* lookups gave it, so that a later call can be compared with it.          *)
(***************************************************************************)
RequestDates == {<<NumTok(1990), NumTok(12), NumTok(31)>>, <<TextTok>>}
RequestTimes == {<<NumTok(23), NumTok(0)>>, <<TextTok, NumTok(0)>>}

Finished == pc \in {"returned", "raised"}

\* the finished call: its arguments, what the lookups answered, its outcome
CallSummary ==
    [entry |-> entry, date_str |-> date_str, time_str |-> time_str,
     full_name |-> full_name,
     geo_matches |-> geo_matches, location |-> location, offset |-> offset,
     tz_failed |-> (error = "KeyError"),
     pc |-> pc, error |-> error, result |-> result, between |-> FALSE]

InitRequests ==
    /\ entry \in {"build_fact_json", "generate_blueprint"}
    /\ date_str \in RequestDates
    /\ time_str \in RequestTimes
    /\ full_name \in PipelineNames
    /\ OutsideIdle
    /\ pc = IF entry = "build_fact_json" THEN "parse" ELSE "astrology"
    /\ trace = <<>> /\ error = ""
    /\ FactsUnset /\ BlueprintUnset /\ result = NoRecord
    /\ year = 0 /\ month = 0 /\ day = 0
    /\ LifePathIdle
    /\ DefinitionIdle
    /\ ReduceIdle
    /\ ZodiacIdle
    /\ SignIdle

\* datetime.now() moves on
Tick ==
    /\ now < MaxClock
    /\ now' = now + 1
    /\ UNCHANGED <<calcVars, inputVars, remembered, story, pc, trace, error,
                   factVars, blueprintVars, result>>

\* the next request arrives: a new frame, nothing is left of the call before
NextCall ==
    /\ Finished
    /\ \E keep \in BOOLEAN :
          /\ keep => remembered = NoCall
          /\ remembered' = IF keep THEN CallSummary
                           ELSE IF remembered = NoCall THEN NoCall
                           ELSE [remembered EXCEPT !.between = TRUE]
    /\ entry' \in {"build_fact_json", "generate_blueprint"}
    /\ date_str' \in RequestDates
    /\ time_str' \in RequestTimes
    /\ full_name' \in PipelineNames
    /\ pc' = IF entry' = "build_fact_json" THEN "parse" ELSE "astrology"
    /\ trace' = <<>> /\ error' = ""
    /\ local_dt' = NoDateTime /\ utc_dt' = NoDateTime
    /\ geo_matches' = -1 /\ location' = NoLocation /\ offset' = 0
    /\ bg' = NoBodyGraph /\ western' = NoWestern
    /\ astro_data' = NoSubRecord /\ numerology' = NoSubRecord
    /\ human_design' = NoSubRecord /\ chinese_data' = NoSubRecord
    /\ result' = NoRecord
    /\ UNCHANGED <<calcVars, now, story>>

\* round() is a function of the double it is given: a longitude that ties
\* between two hundredths rounds the way it did in the remembered call
EphemerisOfRequests ==
    /\ Ephemeris
    /\ (/\ remembered # NoCall
        /\ remembered.entry = "build_fact_json"
        /\ remembered.pc = "returned"
        /\ remembered.result.western.raw = western'.raw)
           => western' = remembered.result.western

NextRequests ==
    \/ Parse \/ Geocode \/ UtcOffset \/ BodyGraph \/ EphemerisOfRequests \/ Output
    \/ BlueprintAstrology \/ BlueprintNumerology \/ BlueprintHumanDesign
    \/ BlueprintChineseZodiac \/ BlueprintAssemble
    \/ Tick \/ NextCall

SpecRequests == InitRequests /\ [][NextRequests]_vars

(***************************************************************************)
(* SpecHumanDesign: the human-design step of generate_blueprint on every   *)
(* calendar date of an odd and of an even year, and on a date that does    *)
(* not parse                                                               *)
(***************************************************************************)
HumanDesignYears == {1999, 2000}
HumanDesignDates ==
    {<<NumTok(y), NumTok(m), NumTok(d)>> :
        y \in HumanDesignYears, m \in 1..12, d \in 1..31}

InitHumanDesign ==
    /\ entry = "generate_blueprint"
    /\ date_str \in {ds \in HumanDesignDates :
                        ds[3].val <= DaysInMonth(ds[1].val, ds[2].val)}
                    \cup {<<TextTok>>}
    /\ time_str = Midnight
    /\ full_name \in PipelineNames
    /\ OutsideIdle
    /\ pc = "human_design"
    /\ trace = <<"calculate_astrology", "calculate_numerology">> /\ error = ""
    /\ FactsUnset /\ result = NoRecord
    /\ astro_data = calculate_astrology(date_str, time_str)
    /\ numerology = calculate_numerology(date_str, full_name)
    /\ human_design = NoSubRecord /\ chinese_data = NoSubRecord
    /\ year = 0 /\ month = 0 /\ day = 0
    /\ LifePathIdle
    /\ DefinitionIdle
    /\ ReduceIdle
    /\ ZodiacIdle
    /\ SignIdle

NextHumanDesign == BlueprintHumanDesign

SpecHumanDesign == InitHumanDesign /\ [][NextHumanDesign]_vars

(***************************************************************************)
(* Properties of the life-path routines (SpecLifePath)                     *)
(***************************************************************************)
\* the reference reduction, on numbers: digit sums by division, stopping at
\* a single digit or at a master number
RECURSIVE RefDigitSum(_)
RefDigitSum(n) == IF n = 0 THEN 0 ELSE (n % 10) + RefDigitSum(n \div 10)

RECURSIVE RefReduce(_)
RefReduce(n) == IF n <= 9 \/ n \in {11, 22, 33} THEN n
                ELSE RefReduce(RefDigitSum(n))

\* C1: for every valid calendar date calculate_life_path_number reduces day,
\* month and the digit sum of the year independently, stopping a component at
\* 11, 22 or 33, adds the three components and reduces the total by the same
\* rule; 1990-01-01 gives the components 1, 1, 1 and the life path 3.
LifePathMatchesReference ==
    life_path_calc # NoLifePath =>
        /\ life_path_calc.day_sum = RefReduce(day)
        /\ life_path_calc.month_sum = RefReduce(month)
        /\ life_path_calc.year_sum = RefReduce(RefDigitSum(year))
        /\ life_path_calc.result =
               RefReduce(RefReduce(day) + RefReduce(month)
                         + RefReduce(RefDigitSum(year)))
        /\ (year = 1990 /\ month = 1 /\ day = 1 =>
               /\ life_path_calc.day_sum = 1
               /\ life_path_calc.month_sum = 1
               /\ life_path_calc.year_sum = 1
               /\ life_path_calc.result = 3)

\* a date with a master-number component (day 29 reduces to 11) was computed
LifePathComputedWithMasterDay ==
    /\ day = 29
    /\ life_path_calc.day_sum = 11
    /\ life_path_calc.result \in (1..9) \cup {11, 22, 33}

\* C2: the numerology.life_path of the FactRecord (get_facts.py life_path)
\* equals the canonical component-wise life-path number of index.py for
\* every valid calendar date.
FactsLifePathIsCanonical ==
    numerology_life_path # 0 =>
        numerology_life_path = calculate_life_path_number(day, month, year)

(***************************************************************************)
(* Properties of the Chinese-zodiac routines (SpecZodiac)                  *)
(***************************************************************************)
RefAnimal(Y) ==
    CASE Y % 12 = 4 -> "Rat"      [] Y % 12 = 5 -> "Ox"
      [] Y % 12 = 6 -> "Tiger"    [] Y % 12 = 7 -> "Rabbit"
      [] Y % 12 = 8 -> "Dragon"   [] Y % 12 = 9 -> "Snake"
      [] Y % 12 = 10 -> "Horse"   [] Y % 12 = 11 -> "Goat"
      [] Y % 12 = 0 -> "Monkey"   [] Y % 12 = 1 -> "Rooster"
      [] Y % 12 = 2 -> "Dog"      [] Y % 12 = 3 -> "Pig"

\* C3: the animal is animals[(Y-4) mod 12] over the fixed order Rat..Pig, in
\* both routines: it has period 12 and no smaller period, every year with
\* Y mod 12 = 4 gives Rat, and 1990 gives Horse.
AnimalCycle ==
    /\ chinese # NoZodiac =>
        /\ chinese.animal = RefAnimal(year)
        /\ chinese_zodiac(year + 12).animal = chinese.animal
        /\ \A k \in 1..11 : chinese_zodiac(year + k).animal # chinese.animal
        /\ (year % 12 = 4 => chinese.animal = "Rat")
        /\ (year = 1990 => chinese.animal = "Horse")
    /\ archetype_chinese # NoZodiac =>
        /\ archetype_chinese.animal = RefAnimal(year)
        /\ calculate_chinese_zodiac(year + 12).animal = archetype_chinese.animal
        /\ \A k \in 1..11 :
              calculate_chinese_zodiac(year + k).animal # archetype_chinese.animal
        /\ (year % 12 = 4 => archetype_chinese.animal = "Rat")
        /\ (year = 1990 => archetype_chinese.animal = "Horse")

\* both routines ran on a year that is 4 mod 12
RatYearComputed ==
    /\ year % 12 = 4
    /\ chinese.animal = "Rat"
    /\ archetype_chinese.animal = "Rat"

\* the element by the last digit of the year: two consecutive years each
RefElement(Y) ==
    CASE Y % 10 \in {4, 5} -> "Wood"
      [] Y % 10 \in {6, 7} -> "Fire"
      [] Y % 10 \in {8, 9} -> "Earth"
      [] Y % 10 \in {0, 1} -> "Metal"
      [] Y % 10 \in {2, 3} -> "Water"

\* C4: the element is the entry (Y-4) mod 10 of the cycle Wood, Wood, Fire,
\* Fire, Earth, Earth, Metal, Metal, Water, Water, in both routines: it has
\* period 10, each element covers the two consecutive years 2k and 2k+1 of
\* the cycle, and 1990 gives Metal.
ElementCycle ==
    /\ chinese # NoZodiac =>
        /\ chinese.element = RefElement(year)
        /\ chinese.element = elements5[(((year - 4) % 10) \div 2) + 1]
        /\ chinese_zodiac(year + 10).element = chinese.element
        /\ (year = 1990 => chinese.element = "Metal")
    /\ archetype_chinese # NoZodiac =>
        /\ archetype_chinese.element = RefElement(year)
        /\ archetype_chinese.element = elements10[((year - 4) % 10) + 1]
        /\ calculate_chinese_zodiac(year + 10).element = archetype_chinese.element
        /\ (year = 1990 => archetype_chinese.element = "Metal")

\* both routines ran on 1990
MetalYearComputed ==
    /\ year = 1990
    /\ chinese.element = "Metal"
    /\ archetype_chinese.element = "Metal"

SignMappingTotal ==
    sign_index # -1 =>
        /\ sign_index = (long \div (30 * UnitsPerDegree)) % 12
        /\ sign_index \in 0..11
        /\ sign = signs[sign_index + 1]
        /\ Cardinality({i \in 1..12 : signs[i] = sign}) = 1
        /\ 0 <= deg_unrounded
        /\ deg_unrounded < 30 * UnitsPerDegree
        /\ 30 * UnitsPerDegree * sign_index + deg_unrounded = long

\* the last longitude below 360 was mapped, to the end of Pisces
LastLongitudeMapped ==
    /\ long = 360 * UnitsPerDegree - 1
    /\ sign = "Pisces"
    /\ deg_unrounded = 30 * UnitsPerDegree - 1

\* C7: the displayed degrees sun_deg, moon_deg and asc_deg (rounded to two
\* decimals) satisfy 0 <= deg < 30 for every raw longitude of [0, 360).
DisplayedDegreeBelow30 ==
    deg # -1 => (0 <= deg /\ deg < 30 * HundredthsPerDegree)

\* C8: rebuilding a longitude from the reported pair as 30 * index(sign) +
\* degree and mapping it again yields the same sign and the same degree.
SignRoundTrip ==
    deg # -1 =>
        LET rebuilt == 30 * HundredthsPerDegree * sign_index + deg
            index2 == sign_index_of(rebuilt, HundredthsPerDegree)
        IN  /\ index2 \in 0..11
            /\ signs[index2 + 1] = sign
            /\ round2(degree_in_sign(rebuilt, HundredthsPerDegree), 1) = {deg}

(***************************************************************************)
(* Properties of the entry points (SpecPipeline)                           *)
(***************************************************************************)
Lookups == {"geocode", "utc_offset"}
FactCalculators == {"bodygraph", "ephemeris", "chinese_zodiac", "life_path"}
BlueprintCalculators ==
    <<"calculate_astrology", "calculate_numerology", "calculate_human_design",
      "calculate_chinese_zodiac">>

Ran(steps) == \E i \in 1..Len(trace) : trace[i] \in steps

\* C9: when the geocoding lookup returns zero matches build_fact_json fails:
\* no FactRecord, no guessed coordinates, and neither the timezone lookup nor
\* any calculator runs afterwards.
GeocodeMissAborts ==
    (entry = "build_fact_json" /\ geo_matches = 0) =>
        /\ pc = "raised"
        /\ error = "IndexError"
        /\ result = NoRecord
        /\ location = NoLocation
        /\ trace = <<"geocode">>
        /\ ~Ran({"utc_offset"} \cup FactCalculators)

\* the geocoding lookup of a well-formed request came back empty
GeocodeMissed ==
    /\ entry = "build_fact_json"
    /\ local_dt # NoDateTime
    /\ geo_matches = 0
    /\ pc = "raised"

\* a valid calendar date YYYY-MM-DD and a valid 24-hour time HH:MM
RefMonthLength(y, m) ==
    CASE m \in {1, 3, 5, 7, 8, 10, 12} -> 31
      [] m \in {4, 6, 9, 11} -> 30
      [] m = 2 -> IF (y % 4 = 0 /\ y % 100 # 0) \/ y % 400 = 0 THEN 29 ELSE 28

RefValidDate(d) ==
    /\ Len(d) = 3
    /\ \A i \in 1..3 : d[i].num
    /\ d[1].val \in 1000..9999
    /\ d[2].val \in 1..12
    /\ d[3].val \in 1..RefMonthLength(d[1].val, d[2].val)

RefValidTime(t) ==
    /\ Len(t) = 2
    /\ \A i \in 1..2 : t[i].num
    /\ t[1].val \in 0..23
    /\ t[2].val \in 0..59

Malformed == entry # "" /\ ~(RefValidDate(date_str) /\ RefValidTime(time_str))

\* C10: for a malformed birth date or birth time both entry points reject
\* the request before any outbound lookup is issued and before any
\* calculator runs, and return no record.
MalformedInputRejected ==
    Malformed => (trace = <<>> /\ result = NoRecord /\ pc # "returned")

\* C10 as amended: build_fact_json rejects a malformed date or time with a
\* ValueError before any lookup or calculator; generate_blueprint issues no
\* lookup but rejects nothing: its four calculators run, on defaults or
\* fallbacks, and it returns a blueprint.
MalformedInputHandling ==
    Malformed =>
        /\ entry = "build_fact_json" =>
              /\ pc \in {"parse", "raised"}
              /\ trace = <<>>
              /\ result = NoRecord
              /\ (pc = "raised" => error = "ValueError")
        /\ entry = "generate_blueprint" =>
              /\ ~Ran(Lookups)
              /\ error = ""
              /\ pc # "raised"
              /\ (pc = "returned" =>
                     /\ trace = BlueprintCalculators
                     /\ result.kind = "blueprint")

\* build_fact_json refused a date that is no calendar date
MalformedDateRefused ==
    /\ entry = "build_fact_json"
    /\ Len(date_str) = 3
    /\ date_str[2] = NumTok(2)
    /\ date_str[3] = NumTok(31)
    /\ RefValidTime(time_str)
    /\ pc = "raised"
    /\ error = "ValueError"

CenterOrder == <<"root", "sacral", "solar_plexus", "heart", "throat", "ajna",
                 "head", "g", "spleen">>
RECURSIVE RefActiveCount(_, _)
RefActiveCount(cs, i) ==
    IF i = 0 THEN 0
    ELSE RefActiveCount(cs, i - 1) + (IF cs[CenterOrder[i]] THEN 1 ELSE 0)

\* C13: get_hd_definition returns "Single" when the number of active centers
\* among the nine is at least 7, "Split" when it is 4, 5 or 6, and
\* "Triple Split" when it is at most 3, for every assignment of true/false to
\* the nine centers.
DefinitionBanding ==
    definition # "" =>
        LET count == RefActiveCount(defined_centers, Len(CenterOrder))
        IN  /\ count >= 7 => definition = "Single"
            /\ count \in 4..6 => definition = "Split"
            /\ count <= 3 => definition = "Triple Split"

\* exactly seven centers are active (root and sacral are not) and the label
\* was computed
SevenCentersLabelled ==
    /\ defined_centers = [c \in CenterNames |-> c \notin {"root", "sacral"}]
    /\ definition = "Single"

(***************************************************************************)
(* Idempotence of the reduction (SpecReduce)                               *)
(***************************************************************************)
\* C14: reduce_single_digit(n) = n for every n in {1..9, 11, 22, 33}, and
\* reducing a reduced number changes nothing, for every non-negative n.
ReduceIdempotent ==
    /\ (reduced # -1 /\ reduce_in \in (1..9) \cup {11, 22, 33}) =>
           reduced = reduce_in
    /\ reduced_again # -1 => reduced_again = reduced

\* 2999 needs two passes (29, then 11, a master number) and was reduced twice
TwoPassNumberReducedTwice ==
    /\ reduce_in = 2999
    /\ reduced = 11
    /\ reduced_again = 11

(***************************************************************************)
(* Failures inside the calculators of generate_blueprint (SpecPipeline)    *)
(***************************************************************************)
\* the date string is three integers; its first field is an integer
RefDateSplits(d) == Len(d) = 3 /\ d[1].num /\ d[2].num /\ d[3].num
RefYearReadable(d) == d[1].num
\* the time string has a ':' and no integer before it
RefHourUnreadable(t) == Len(t) > 1 /\ ~t[1].num

AstrologyFallback ==
    [sun_sign |-> "Unknown", moon_sign |-> "Unknown", rising_sign |-> "Unknown",
     sun_element |-> "", calculation_method |-> "error-fallback"]
HumanDesignFallback ==
    [type |-> "Generator", profile |-> <<3, 5>>, authority |-> "Emotional",
     strategy |-> "Wait to respond", definition |-> "Split",
     calculation_method |-> "error-fallback"]

\* the parts of C11 that do not depend on which record a failing calculator
\* returns: no exception leaves generate_blueprint, the blueprint has the
\* four sub-records, calculators that parse the date return their fallback
\* when they cannot, and every sub-record is the one its calculator gives on
\* the arguments alone, whatever the other calculators did
SubRecordsContained ==
    /\ pc # "raised" /\ error = ""
    /\ pc = "returned" =>
        /\ result.kind = "blueprint"
        /\ result.archetype_western \notin {NoSubRecord, Escaped}
        /\ result.values_life_path \notin {NoSubRecord, Escaped}
        /\ result.energy_strategy_human_design \notin {NoSubRecord, Escaped}
        /\ result.archetype_chinese \notin {NoSubRecord, Escaped}
        /\ ~RefDateSplits(date_str) =>
               /\ result.values_life_path = get_default_numerology
               /\ result.energy_strategy_human_design = HumanDesignFallback
        /\ ~RefYearReadable(date_str) =>
               result.archetype_chinese = get_default_chinese_zodiac
        /\ RefHourUnreadable(time_str) =>
               result.archetype_western = AstrologyFallback
        /\ result.values_life_path = calculate_numerology(date_str, full_name)
        /\ result.energy_strategy_human_design = calculate_human_design(date_str)
        /\ result.archetype_chinese = calculate_chinese_zodiac_birth_date(date_str)
        /\ RefDateSplits(date_str) =>
               /\ result.archetype_western.calculation_method = "python-simplified"
                      <=> ~RefHourUnreadable(time_str)

\* C11: a failure inside one calculator never aborts generate_blueprint: the
\* blueprint has all four sub-records, a calculator that cannot process its
\* input returns its fallback sub-record, and the other sub-records are what
\* they would be had it succeeded.
CalculatorFailureContained ==
    entry = "generate_blueprint" =>
        /\ SubRecordsContained
        /\ (pc = "returned" /\ ~RefDateSplits(date_str)) =>
               result.archetype_western = AstrologyFallback

\* C11 as amended: as above, except that calculate_astrology does not fall
\* back on a date it cannot parse: it computes from the default date
\* 2000-01-01 and returns a record marked "python-simplified" (sun sign
\* Capricorn); only an unreadable hour gives its fallback.
CalculatorFailureContainedByDefaults ==
    entry = "generate_blueprint" =>
        /\ SubRecordsContained
        /\ (pc = "returned" /\ ~RefDateSplits(date_str)
                /\ ~RefHourUnreadable(time_str)) =>
               /\ result.archetype_western.calculation_method = "python-simplified"
               /\ result.archetype_western.sun_sign = "Capricorn"
               /\ result.archetype_western.moon_sign = signs[((2000 + 1 + 1) % 12) + 1]

\* a blueprint was returned for a date that is not a date and the time 23:00:
\* numerology and human design fell back, astrology computed from 2000-01-01
BlueprintOfUnparseableDate ==
    /\ entry = "generate_blueprint" /\ pc = "returned"
    /\ date_str = <<TextTok>>
    /\ time_str = <<NumTok(23), NumTok(0)>>
    /\ result.values_life_path = get_default_numerology
    /\ result.energy_strategy_human_design = HumanDesignFallback
    /\ result.archetype_western.sun_sign = "Capricorn"

(***************************************************************************)
(* The numerology record (SpecNumerology)                                  *)
(***************************************************************************)
NumerologyRan == entry = "generate_blueprint" /\ numerology # NoSubRecord
NumerologyComputed == NumerologyRan /\ numerology.calculation_method = ""

\* C15: every numerology record calculate_numerology returns, computed or
\* fallback, has life_path_number in {1..9, 11, 22, 33} and
\* expression_number, soul_urge_number and personality_number in 1..9, for
\* every valid calendar date and every name, the empty name included.
NumerologyNumbersInRange ==
    NumerologyRan =>
        /\ numerology.life_path_number \in (1..9) \cup {11, 22, 33}
        /\ numerology.expression_number \in 1..9
        /\ numerology.soul_urge_number \in 1..9
        /\ numerology.personality_number \in 1..9

\* the record was computed for the name "r" (letter 18, a multiple of nine)
\* on 29 February 2000
MultipleOfNineNameComputed ==
    /\ NumerologyComputed
    /\ full_name = <<114>>
    /\ date_str = <<NumTok(2000), NumTok(2), NumTok(29)>>
    /\ numerology.expression_number = 9
    /\ numerology.personality_number = 9

\* the position of a letter of a..z in the alphabet, in either case; 0 for
\* every other character
RefAlphabetPosition(c) ==
    IF c \in 97..122 THEN c - 96
    ELSE IF c \in 65..90 THEN c - 64
    ELSE 0

RefIsVowel(c) == c \in {97, 101, 105, 111, 117, 65, 69, 73, 79, 85}

RECURSIVE RefLetterSum(_, _)
RefLetterSum(name, i) ==
    IF i = 0 THEN 0
    ELSE RefLetterSum(name, i - 1) + RefAlphabetPosition(name[i])

RECURSIVE RefVowelSum(_, _)
RefVowelSum(name, i) ==
    IF i = 0 THEN 0
    ELSE RefVowelSum(name, i - 1)
             + (IF RefIsVowel(name[i]) THEN RefAlphabetPosition(name[i]) ELSE 0)

RECURSIVE RefConsonantSum(_, _)
RefConsonantSum(name, i) ==
    IF i = 0 THEN 0
    ELSE RefConsonantSum(name, i - 1)
             + (IF RefIsVowel(name[i]) THEN 0 ELSE RefAlphabetPosition(name[i]))

\* t mod 9 with 0 mapped to 9
RefModNine(t) == ((t + 8) % 9) + 1

\* C16: for every full name the expression number is the sum of the
\* alphabet positions (a=1..z=26, case-insensitive) of its alphabetic
\* characters, mod 9 with 0 mapped to 9; other characters contribute
\* nothing and there is no master-number exception.
ExpressionIsAlphabetSum ==
    NumerologyComputed =>
        numerology.expression_number =
            RefModNine(RefLetterSum(full_name, Len(full_name)))

\* C17: for every full name, the empty name included, the soul-urge number
\* is the same scheme restricted to the vowels a, e, i, o, u and the
\* personality number the same scheme restricted to the consonants.
VowelAndConsonantSchemes ==
    NumerologyComputed =>
        /\ numerology.soul_urge_number =
               RefModNine(RefVowelSum(full_name, Len(full_name)))
        /\ numerology.personality_number =
               RefModNine(RefConsonantSum(full_name, Len(full_name)))

\* C17 as amended: the schemes hold for every name that is not empty (a
\* name without vowels or without consonants gives 9); for the empty name
\* the code returns its defaults, soul-urge 5 and personality 3.
VowelAndConsonantSchemesOfNonEmptyNames ==
    NumerologyComputed =>
        IF full_name = <<>>
        THEN /\ numerology.soul_urge_number = 5
             /\ numerology.personality_number = 3
        ELSE /\ numerology.soul_urge_number =
                    RefModNine(RefVowelSum(full_name, Len(full_name)))
             /\ numerology.personality_number =
                    RefModNine(RefConsonantSum(full_name, Len(full_name)))

\* the record was computed for "Er": an upper-case vowel (5) and a consonant
\* whose position is a multiple of nine (18)
VowelAndConsonantNameComputed ==
    /\ NumerologyComputed
    /\ full_name = <<69, 114>>
    /\ numerology.soul_urge_number = 5
    /\ numerology.personality_number = 9

(***************************************************************************)
(* The UTC instant of the FactRecord (SpecUtc)                             *)
(***************************************************************************)
\* minutes from 1900-01-01 00:00 to a date-time, counted year by year and
\* month by month
RefYearLength(y) == IF (y % 4 = 0 /\ y % 100 # 0) \/ y % 400 = 0 THEN 366 ELSE 365

RECURSIVE RefDaysBeforeYear(_)
RefDaysBeforeYear(y) ==
    IF y <= 1900 THEN 0 ELSE RefDaysBeforeYear(y - 1) + RefYearLength(y - 1)

RECURSIVE RefDaysBeforeMonth(_, _)
RefDaysBeforeMonth(y, m) ==
    IF m <= 1 THEN 0 ELSE RefDaysBeforeMonth(y, m - 1) + RefMonthLength(y, m - 1)

RefMinuteCount(dt) ==
    (RefDaysBeforeYear(dt.year) + RefDaysBeforeMonth(dt.year, dt.month)
         + dt.day - 1) * 1440
    + dt.hour * 60 + dt.minute

RefCalendarDateTime(dt) ==
    /\ dt.year >= 1900
    /\ dt.month \in 1..12
    /\ dt.day \in 1..RefMonthLength(dt.year, dt.month)
    /\ dt.hour \in 0..23
    /\ dt.minute \in 0..59

\* C18: the UTC instant of the FactRecord is the local civil time minus the
\* offset the timezone lookup returned: birth.utc + offset = birth.local,
\* with birth.utc a calendar date-time, across day, month and year
\* boundaries.
UtcIsLocalMinusOffset ==
    (entry = "build_fact_json" /\ pc = "returned") =>
        /\ RefCalendarDateTime(result.birth.utc)
        /\ RefMinuteCount(result.birth.utc) + offset
               = RefMinuteCount(result.birth.local)
        /\ result.birth.local = strptime(date_str, time_str)

\* 00:14 on 1 January 2000 at an offset of +5:45 is 18:29 on 31 December
\* 1999 in the record returned
UtcRolledBackAcrossNewYear ==
    /\ entry = "build_fact_json" /\ pc = "returned"
    /\ offset = 345
    /\ result.birth.local =
           [year |-> 2000, month |-> 1, day |-> 1, hour |-> 0, minute |-> 14]
    /\ result.birth.utc =
           [year |-> 1999, month |-> 12, day |-> 31, hour |-> 18, minute |-> 29]

(***************************************************************************)
(* The narrative stage (SpecStory)                                         *)
(***************************************************************************)
\* C12: generate_blueprint_narrative never raises and, whether the LLM call
\* succeeded (success = true) or failed (success = false, with an error
\* message), the "facts" field of its result is the input facts with no
\* field added, removed or changed.
NarrativeKeepsFacts ==
    /\ pc = "narrated" =>
        /\ error = ""
        /\ story # NoStory
        /\ "facts" \in DOMAIN story
        /\ story.facts = result
        /\ DOMAIN story.facts = DOMAIN result
        /\ story.success => "narrative" \in DOMAIN story
        /\ ~story.success => ("error" \in DOMAIN story /\ story.error # "")
    /\ pc # "narrated" => story = NoStory

\* the LLM call failed on the facts of a returned record: success is false
\* and the facts are there
NarrativeFailedWithFacts ==
    /\ pc = "narrated"
    /\ ~story.success
    /\ story.error = "APIError"
    /\ story.facts.kind = "facts"
    /\ story.facts.birth.utc # NoDateTime

(***************************************************************************)
(* Determinism across requests (SpecRequests)                              *)
(***************************************************************************)
\* the call that just finished has the arguments of the remembered call and
\* its lookups were given the same answers
SameCallAsRemembered ==
    /\ Finished
    /\ remembered # NoCall
    /\ remembered.entry = entry
    /\ remembered.date_str = date_str
    /\ remembered.time_str = time_str
    /\ remembered.full_name = full_name
    /\ remembered.geo_matches = geo_matches
    /\ remembered.location = location
    /\ remembered.offset = offset
    /\ remembered.tz_failed = (error = "KeyError")

\* C19: build_fact_json and generate_blueprint are deterministic and
\* stateless across requests: for fixed geocoding and timezone responses two
\* calls with the same arguments return identical records, whatever calls
\* ran before or between them.
CallsReturnIdenticalRecords ==
    SameCallAsRemembered =>
        /\ pc = remembered.pc
        /\ error = remembered.error
        /\ result = remembered.result

\* a blueprint without the two fields read from the clock
WithoutClockFields(blueprint) ==
    [blueprint EXCEPT !.calculation_timestamp = 0,
                      !.values_life_path.personal_year = 0]

\* C19 as amended: build_fact_json returns identical records; two blueprints
\* of generate_blueprint are identical except for calculation_timestamp and
\* values_life_path.personal_year, which are read from the clock.
CallsReturnIdenticalRecordsButForTheClock ==
    SameCallAsRemembered =>
        /\ pc = remembered.pc
        /\ error = remembered.error
        /\ entry = "build_fact_json" => result = remembered.result
        /\ (entry = "generate_blueprint" /\ pc = "returned") =>
               WithoutClockFields(result) = WithoutClockFields(remembered.result)

\* build_fact_json returned the record it returned before, with another call
\* in between and the clock two ticks further
SameFactsAfterOtherCalls ==
    /\ SameCallAsRemembered
    /\ entry = "build_fact_json" /\ pc = "returned"
    /\ remembered.between
    /\ now = 2
    /\ result = remembered.result

(***************************************************************************)
(* The two life-path routines modulo nine (SpecLifePath)                   *)
(***************************************************************************)
\* the sum of the digits of YYYYMMDD (the padding zeros add nothing)
RefDateDigitSum == RefDigitSum(year) + RefDigitSum(month) + RefDigitSum(day)

RefLifePathValues == (1..9) \cup {11, 22, 33}

\* C22: for every valid calendar date life_path (get_facts.py) and
\* calculate_life_path_number (index.py) both return a value of
\* {1..9, 11, 22, 33} congruent mod 9 to the sum of the digits of YYYYMMDD,
\* so they differ only when at least one of them is a master number.
LifePathsAgreeModNine ==
    /\ life_path_calc # NoLifePath =>
        /\ life_path_calc.result \in RefLifePathValues
        /\ (life_path_calc.result - RefDateDigitSum) % 9 = 0
    /\ numerology_life_path # 0 =>
        /\ numerology_life_path \in RefLifePathValues
        /\ (numerology_life_path - RefDateDigitSum) % 9 = 0
    /\ (life_path_calc # NoLifePath /\ numerology_life_path # 0
            /\ life_path_calc.result # numerology_life_path) =>
           (life_path_calc.result \in {11, 22, 33}
                \/ numerology_life_path \in {11, 22, 33})

\* on 9 January 1985 the routines differ: 6 component-wise, the master
\* number 33 on the eight digits
RoutinesDifferByMasterNumber ==
    /\ year = 1985 /\ month = 1 /\ day = 9
    /\ life_path_calc.result = 6
    /\ numerology_life_path = 33

(***************************************************************************)
(* The three name numbers together (SpecNumerology)                        *)
(***************************************************************************)
\* every character is an ASCII letter or no letter at all
RefAsciiName(name) ==
    \A i \in 1..Len(name) :
        name[i] \in (65..90) \cup (97..122) \/ name[i] \in {32, 45, 39}

\* C24: for every non-empty name over ASCII letters and non-letter
\* characters, expression_number is congruent mod 9 to soul_urge_number +
\* personality_number.
NameNumbersAddUpModNine ==
    (NumerologyComputed /\ full_name # <<>> /\ RefAsciiName(full_name)) =>
        \E k \in -2..2 :
            numerology.expression_number + 9 * k =
                numerology.soul_urge_number + numerology.personality_number

\* the record was computed for "a E": a lower-case vowel, a space and an
\* upper-case vowel, no consonant (6 = 6 + 9 - 9)
VowelsOnlyNameComputed ==
    /\ NumerologyComputed
    /\ full_name = <<97, 32, 69>>
    /\ numerology.expression_number = 6
    /\ numerology.soul_urge_number = 6
    /\ numerology.personality_number = 9

(***************************************************************************)
(* The definition label and the birth date (SpecHumanDesign)               *)
(***************************************************************************)
HumanDesignComputed ==
    /\ entry = "generate_blueprint"
    /\ human_design # NoSubRecord
    /\ human_design.calculation_method = ""

RefEven(n) == \E h \in 0..n : n = 2 * h

\* C23: in calculate_human_design the definition label is fixed by the
\* parities of day, month and year: "Single" exactly when all three are even
\* (9 active centers), "Triple Split" exactly when all three are odd (3
\* active centers), "Split" otherwise; the number of active centers is
\* always 3, 4, 5 or 9.
DefinitionFixedByParities ==
    HumanDesignComputed =>
        LET count == RefActiveCount(human_design.centers, Len(CenterOrder))
            all_even == /\ RefEven(date_str[1].val) /\ RefEven(date_str[2].val)
                        /\ RefEven(date_str[3].val)
            all_odd == /\ ~RefEven(date_str[1].val) /\ ~RefEven(date_str[2].val)
                       /\ ~RefEven(date_str[3].val)
        IN  /\ count \in {3, 4, 5, 9}
            /\ (human_design.definition = "Single") <=> all_even
            /\ all_even => count = 9
            /\ (human_design.definition = "Triple Split") <=> all_odd
            /\ all_odd => count = 3
            /\ (human_design.definition = "Split") <=> (~all_even /\ ~all_odd)

\* the record was computed for 29 November 1999, day, month and year odd
AllOddDateLabelled ==
    /\ HumanDesignComputed
    /\ date_str = <<NumTok(1999), NumTok(11), NumTok(29)>>
    /\ human_design.definition = "Triple Split"
    /\ human_design.centers.solar_plexus /\ human_design.centers.ajna
    /\ human_design.centers.head

(***************************************************************************)
(* The date-derived sub-records of build_fact_json (SpecUtc)               *)
(***************************************************************************)
\* C21: in build_fact_json the chinese and numerology sub-records depend only
\* on the local civil birth date: whatever place the geocoder resolved and
\* whatever UTC offset the lookup returned, the record returned for a date_str
\* carries the zodiac of the year written in date_str and the life path of
\* its eight digits, also when the offset puts the UTC instant in another
\* calendar year.
DateFactsOfLocalDateOnly ==
    (entry = "build_fact_json" /\ pc = "returned") =>
        /\ result.chinese =
               [animal |-> RefAnimal(date_str[1].val),
                element |-> RefElement(date_str[1].val),
                yin_yang |-> IF RefEven(date_str[1].val) THEN "Yang" ELSE "Yin"]
        /\ result.numerology.life_path =
               RefReduce(RefDigitSum(date_str[1].val) + RefDigitSum(date_str[2].val)
                         + RefDigitSum(date_str[3].val))

\* a record for 1 January 2000 whose UTC instant lies in 1999, with the
\* zodiac and the life path of the local date
LocalYearFactsWithUtcInOtherYear ==
    /\ entry = "build_fact_json" /\ pc = "returned"
    /\ date_str = <<NumTok(2000), NumTok(1), NumTok(1)>>
    /\ location.display_name = "Kathmandu"
    /\ result.birth.utc.year = 1999
    /\ result.chinese.animal = "Dragon"
    /\ result.numerology.life_path = 4

====
